---- MODULE Spec2Model ----
(***************************************************************************)
(* Model of the db_retail Streamlit dashboard.                             *)
(*                                                                         *)
(*   Spec     the session: session-state initialisation, login form,       *)
(*            credential check, sidebar navigation, theme, logout and      *)
(*            page loading of main.py.                                     *)
(*   LiveSpec Spec under a script runner that never abandons a run.        *)
(*   AggSpec  the sales page pages/1_Profile_Penjualan_By_Tipe_Motor.py:   *)
(*            the data load, the year/month/day-range controls, the        *)
(*            filter, the dense daily aggregations and the heatmap.        *)
(***************************************************************************)
EXTENDS Integers, Sequences, FiniteSets, TLC

VARIABLES
    \* ---- st.session_state of main.py
    authentication_status,  \* main.py:130-131
    selected_category,      \* main.py:132-133
    selected_page,          \* main.py:134-135
    theme,                  \* main.py:136-137
    username,               \* widget key "username", main.py:104-109
    password,               \* widget key "password", main.py:110-116
    menu,                   \* component state of option_menu, key menu_<category>
    theme_widget,           \* value of the theme selectbox, main.py:224
    session_keys,           \* the keys st.session_state holds, main.py:130-137
    \* ---- the environment of the process
    secrets,                \* st.secrets: the credential store
    page_config,            \* what get_page_config() finds under pages/
    static,                 \* the files of the static/ directory
    \* ---- the script run in progress and what it has rendered
    pc,                     \* position of the run of main.py
    loop_i,                 \* index of the category the menu loop is at
    submitted,              \* main.py:117, the form's submit button
    errors,                 \* st.error messages of the run
    exception,              \* uncaught exception of the run
    sidebar,                \* the sidebar navigation was rendered by the run
    page_loaded,            \* the page the run exec'd, main.py:231-234
    data_fetched,           \* the exec'd page got past its own auth check
    nav_access,             \* how the run accessed selected_category/page
    nav_at_logout,          \* history: the selection when Logout was clicked
    event,                  \* the interaction the session is processing
    \* ---- the sales page
    ppc,                    \* position of the run of the page script
    raw_rows,               \* page:46-50, the rows of SELECT * FROM LAPJUAL
    df,                     \* load_data(): the cleaned rows
    selected_year,          \* page:80
    selected_month,         \* page:83-85
    start_day,              \* page:94-98
    end_day,                \* page:94-98
    filtered_df,            \* page:102-107
    daily_counts,           \* page:114-120
    daily_series_counts,    \* page:127-134
    daily_segment_counts,   \* page:141-148
    daily_tipeunit_counts,  \* page:155-162
    agg_error,              \* the error the calculation raised, if any
    heatmap_pivot,          \* page:165-166
    selected_salesforce,    \* page:310-314
    filtered_heatmap_pivot, \* page:317-326
    heatmap_shown           \* page:329-338, the heatmap chart was drawn

session_vars == <<authentication_status, selected_category, selected_page, theme,
                  username, password, menu, theme_widget, session_keys, secrets,
                  page_config, static, pc, loop_i, submitted, errors, exception,
                  sidebar, page_loaded, data_fetched, nav_access, nav_at_logout,
                  event>>

\* the session but the st.error messages of the run
session_but_errors == <<authentication_status, selected_category, selected_page,
                        theme, username, password, menu, theme_widget,
                        session_keys, secrets, page_config, static, pc, loop_i,
                        submitted, exception, sidebar, page_loaded, data_fetched,
                        nav_access, nav_at_logout, event>>

page_vars == <<ppc, raw_rows, df, selected_year, selected_month, start_day, end_day,
               filtered_df, daily_counts, daily_series_counts,
               daily_segment_counts, daily_tipeunit_counts, agg_error,
               heatmap_pivot, selected_salesforce, filtered_heatmap_pivot,
               heatmap_shown>>

heat_vars == <<heatmap_pivot, selected_salesforce, filtered_heatmap_pivot,
               heatmap_shown>>

\* a frame without rows and columns
EmptyMatrix == [index |-> <<>>, columns |-> <<>>, cell |-> <<>>]

vars == <<session_vars, page_vars>>

(***************************************************************************)
(* Values                                                                  *)
(***************************************************************************)

\* Python's None, as a session value
NoneVal == "<None>"

\* an option_menu that has not sent a value yet
Unset == "<unset>"

\* a key st.session_state does not hold
Absent == "<absent>"

\* main.py:130-137: the keys the script initialises
SessionKeys == {"authentication_status", "selected_category", "selected_page", "theme"}

Digit == <<"0", "1", "2", "3", "4", "5", "6", "7", "8", "9">>

(***************************************************************************)
(* Bounds of the model                                                     *)
(***************************************************************************)

\* category directories under pages/
MaxCategories == 2

\* page files in one category directory
MaxPages == 2

\* rows of the LAPJUAL table
MaxRows == 2

\* the months the user picks in the Month selectbox: "01" .. Pad2(MaxMonth)
MaxMonth == 3

\* the day slider is moved to the days 1 .. MaxDayPick, to day 30 and to the
\* last day of the month
MaxDayPick == 3

(***************************************************************************)
(* The credential store and passlib's bcrypt context                       *)
(***************************************************************************)

StoredUsername == "admin"

StoredPassword == "s3cret"

Usernames == {"admin", "Admin", "guest"}

Passwords == {"s3cret", "S3cret"}

\* bcrypt's digest of a secret under a salt (injective in the secret)
Digest(salt, secret) == <<salt, secret>>

\* pwd_context.hash: a self-describing hash string
HashPassword(secret, salt) ==
    [ident |-> "$2b$", cost |-> 12, salt |-> salt, digest |-> Digest(salt, secret)]

\* a PASSWORD_HASH value that no scheme of the context identifies
MalformedHash == [ident |-> "", cost |-> 0, salt |-> "", digest |-> <<>>]

\* pwd_context.verify: "raise" stands for passlib's UnknownHashError
PwdVerify(secret, hash) ==
    IF hash.ident # "$2b$" THEN "raise"
    ELSE IF hash.digest = Digest(hash.salt, secret) THEN "True" ELSE "False"

\* the stores st.secrets may hold: a key absent from the DOMAIN raises KeyError
SecretsStores ==
    { [k \in {"USERNAME", "PASSWORD_HASH"} |->
          IF k = "USERNAME" THEN [str |-> StoredUsername]
          ELSE HashPassword(StoredPassword, "salt1")],
      [k \in {"USERNAME", "PASSWORD_HASH"} |->
          IF k = "USERNAME" THEN [str |-> StoredUsername] ELSE MalformedHash],
      [k \in {"USERNAME"} |-> [str |-> StoredUsername]],
      [k \in {"PASSWORD_HASH"} |-> HashPassword(StoredPassword, "salt1")],
      [k \in {} |-> MalformedHash] }

MsgNotConfigured == "Username or password hash not found in secrets. Please set them."

MsgIncorrect == "Incorrect username or password."

MsgMustLogin == "You must be logged in to view this page."

MsgBgNotFound == "Background image not found at static/bg-login.jpg"

MsgErrorLoading == "Error loading page: "

MsgTursoUnset == "TURSO_DB_URL and TURSO_AUTH_TOKEN must be set in .streamlit/secrets.toml."

MsgDbFailed == "Failed to connect or query database: "

\* the static/ directory, with and without the login background
StaticDirs ==
    { {"logo.png", "logo-icons.jpg", "bg-login.jpg"},
      {"logo.png", "logo-icons.jpg"} }

\* main.py:20-29: set_background shows an error when the image is missing
set_background(image_filename, dir) ==
    IF image_filename \in dir THEN {} ELSE {MsgBgNotFound}

\* the Turso settings st.secrets may hold: both set, the URL empty, the token
\* missing, none
TursoSettings ==
    { [k \in {"TURSO_DB_URL", "TURSO_AUTH_TOKEN"} |->
          [str |-> IF k = "TURSO_DB_URL" THEN "libsql://db.turso.io" ELSE "token"]],
      [k \in {"TURSO_DB_URL", "TURSO_AUTH_TOKEN"} |->
          [str |-> IF k = "TURSO_DB_URL" THEN "" ELSE "token"]],
      [k \in {"TURSO_DB_URL"} |-> [str |-> "libsql://db.turso.io"]],
      [k \in {} |-> [str |-> ""]] }

\* a store with Turso settings added
WithTurso(store, t) ==
    [k \in DOMAIN store \cup DOMAIN t |-> IF k \in DOMAIN t THEN t[k] ELSE store[k]]

\* mutant of check_credentials: the username comparison left out
check_credentials_any_user(user, pass, store) ==
    IF ~({"USERNAME", "PASSWORD_HASH"} \subseteq DOMAIN store)
    THEN [ret |-> "False", msgs |-> {MsgNotConfigured}]
    ELSE [ret |-> PwdVerify(pass, store["PASSWORD_HASH"]), msgs |-> {}]

\* check_credentials(): what it returns (or that it raises) and what it shows
check_credentials(user, pass, store) ==
    IF ~({"USERNAME", "PASSWORD_HASH"} \subseteq DOMAIN store)
    THEN [ret |-> "False", msgs |-> {MsgNotConfigured}]
    ELSE IF user # store["USERNAME"].str
    THEN [ret |-> "False", msgs |-> {}]
    ELSE [ret |-> PwdVerify(pass, store["PASSWORD_HASH"]), msgs |-> {}]

(***************************************************************************)
(* get_page_config(): categories in sorted order, each with its pages      *)
(***************************************************************************)

CatName(i) == "cat" \o Digit[i + 1]

\* main.py:69-72: the page name of the j-th page file of a directory, the file
\* name without its extension and its leading "<digits>_".  File 0 is "1_.py",
\* whose page name is empty; file j is "<j+1>_page<j>.py".
PageName(j) == IF j = 0 THEN "" ELSE "page" \o Digit[j + 1]

\* main.py:68: the page names of a set of page files, in the order of
\* sorted(os.listdir())
PageList(files) ==
    [i \in 1..Cardinality(files) |->
        PageName(CHOOSE j \in files : Cardinality({k \in files : k < j}) = i - 1)]

\* every directory layout up to the bounds
PageConfigs ==
    UNION { { [i \in 1..n |-> [cat |-> CatName(i), pages |-> PageList(fs[i])]] :
                fs \in [1..n -> SUBSET (0..MaxPages)] } : n \in 0..MaxCategories }

get_page_config == page_config

Keys(cfg) == {cfg[i].cat : i \in DOMAIN cfg}

\* page_config[category]
PagesOf(cfg, c) == cfg[CHOOSE i \in DOMAIN cfg : cfg[i].cat = c].pages

Elems(s) == {s[i] : i \in DOMAIN s}

\* list.index, zero-based
IndexOf(s, x) == (CHOOSE i \in DOMAIN s : s[i] = x /\ \A k \in 1..(i - 1) : s[k] # x) - 1

(***************************************************************************)
(* The session                                                             *)
(***************************************************************************)

NoMenu == [c \in {CatName(i) : i \in 1..(MaxCategories + 1)} |-> Unset]

\* mutant of AuthGate: the branch taken whatever the flag says
AuthGateOpen == TRUE

\* main.py:144, the authentication branch of the script
AuthGate == authentication_status

\* pages/*.py:11-14, the check at the top of every page
PageAuthCheck == authentication_status

\* a new run of the script replaces what the previous run rendered
NewRun ==
    /\ pc' = "start"
    /\ loop_i' = 1
    /\ submitted' = FALSE
    /\ errors' = {}
    /\ exception' = NoneVal
    /\ sidebar' = FALSE
    /\ page_loaded' = <<>>
    /\ data_fetched' = FALSE
    /\ nav_access' = {}

\* the widgets before any interaction and a run that has not started
SessionRest ==
    /\ username = ""
    /\ password = ""
    /\ menu = NoMenu
    /\ theme_widget = Unset
    /\ pc = "start"
    /\ loop_i = 1
    /\ submitted = FALSE
    /\ errors = {}
    /\ exception = NoneVal
    /\ sidebar = FALSE
    /\ page_loaded = <<>>
    /\ data_fetched = FALSE
    /\ nav_access = {}
    /\ nav_at_logout = <<>>
    /\ event = "visit"

\* main.py:130-137: the session state once the script has initialised it
SessionDefaults ==
    /\ session_keys = SessionKeys
    /\ selected_category = NoneVal
    /\ selected_page = NoneVal
    /\ theme = "light"

\* the session of a first visit: st.session_state holds no key yet (the absent
\* authentication_status reads as false, pages/*.py:11)
SessionInit ==
    /\ authentication_status = FALSE
    /\ session_keys = {}
    /\ selected_category = Absent
    /\ selected_page = Absent
    /\ theme = Absent
    /\ SessionRest

\* the page script before it has run
PageUnrun ==
    /\ raw_rows = <<>>
    /\ df = <<>>
    /\ selected_year = NoneVal
    /\ selected_month = NoneVal
    /\ start_day = 0
    /\ end_day = 0
    /\ filtered_df = <<>>
    /\ daily_counts = <<>>
    /\ daily_series_counts = <<>>
    /\ daily_segment_counts = <<>>
    /\ daily_tipeunit_counts = <<>>
    /\ agg_error = NoneVal
    /\ heatmap_pivot = EmptyMatrix
    /\ selected_salesforce = <<>>
    /\ filtered_heatmap_pivot = EmptyMatrix
    /\ heatmap_shown = FALSE

PageIdle ==
    /\ ppc = "off"
    /\ PageUnrun

Init ==
    /\ SessionInit
    /\ secrets \in SecretsStores
    /\ page_config \in PageConfigs
    /\ static \in StaticDirs
    /\ PageIdle

\* main.py:129-140: every run starts by giving the absent keys their defaults
InitSessionState ==
    /\ pc = "start"
    /\ pc' = "gate"
    /\ session_keys' = session_keys \cup SessionKeys
    /\ authentication_status' =
         IF "authentication_status" \in session_keys THEN authentication_status ELSE FALSE
    /\ selected_category' =
         IF "selected_category" \in session_keys THEN selected_category ELSE NoneVal
    /\ selected_page' =
         IF "selected_page" \in session_keys THEN selected_page ELSE NoneVal
    /\ theme' = IF "theme" \in session_keys THEN theme ELSE "light"
    /\ nav_access' =
         IF {"selected_category", "selected_page"} \subseteq session_keys
         THEN nav_access ELSE nav_access \cup {"init"}
    /\ UNCHANGED <<username, password, menu, theme_widget, secrets, page_config,
                   static, loop_i, submitted, errors, exception, sidebar,
                   page_loaded, data_fetched, nav_at_logout>>
    /\ UNCHANGED event
    /\ UNCHANGED page_vars

\* main.py:144-155: the run of an unauthenticated session ends at the login form.
\* The run completes, so the state of widgets it did not render is dropped.
RenderLogin ==
    /\ pc = "gate"
    /\ ~AuthGate
    /\ pc' = "login"
    /\ errors' = errors \cup set_background("bg-login.jpg", static)
    /\ menu' = NoMenu
    /\ theme_widget' = Unset
    /\ UNCHANGED <<authentication_status, selected_category, selected_page, theme,
                   username, password, secrets, page_config, loop_i, submitted,
                   exception, sidebar, page_loaded, data_fetched,
                   nav_access, nav_at_logout>>
    /\ UNCHANGED event
    /\ UNCHANGED <<session_keys, static>>
    /\ UNCHANGED page_vars

\* main.py:129-155: the run that a click on Login starts; the session keys are
\* set, so the run accesses the selection in no way
Submit(user, pass) ==
    /\ pc = "login"
    /\ ~AuthGate
    /\ username' = user
    /\ password' = pass
    /\ LET r == check_credentials(user, pass, secrets)
       IN  CASE r.ret = "True" ->
                  /\ authentication_status' = TRUE
                  /\ NewRun
             []  r.ret = "False" ->
                  /\ authentication_status' = FALSE
                  /\ submitted' = TRUE
                  /\ errors' = set_background("bg-login.jpg", static) \cup r.msgs
                                  \cup {MsgIncorrect}
                  /\ exception' = NoneVal
                  /\ nav_access' = {}
                  /\ UNCHANGED <<pc, loop_i, sidebar, page_loaded, data_fetched>>
             []  OTHER ->
                  /\ submitted' = TRUE
                  /\ errors' = set_background("bg-login.jpg", static) \cup r.msgs
                  /\ exception' = "UnknownHashError"
                  /\ nav_access' = {}
                  /\ UNCHANGED <<authentication_status, pc, loop_i, sidebar,
                                 page_loaded, data_fetched>>
    /\ UNCHANGED <<selected_category, selected_page, theme, menu, theme_widget,
                   secrets, page_config, nav_at_logout>>
    /\ event' = "submit"
    /\ UNCHANGED <<session_keys, static>>
    /\ UNCHANGED page_vars

\* main.py:156-162
RunGetPageConfig ==
    /\ pc = "gate"
    /\ AuthGate
    /\ pc' = IF Len(get_page_config) = 0 THEN "stopped" ELSE "sidebar"
    /\ UNCHANGED <<authentication_status, selected_category, selected_page, theme,
                   username, password, menu, theme_widget, secrets, page_config,
                   loop_i, submitted, errors, exception, sidebar, page_loaded,
                   data_fetched, nav_access, nav_at_logout>>
    /\ UNCHANGED event
    /\ UNCHANGED <<session_keys, static>>
    /\ UNCHANGED page_vars

\* main.py:181-182
DefaultCategory(cfg, cat) == IF cat = NoneVal THEN cfg[1].cat ELSE cat

\* main.py:185: the page has to be defaulted
NeedsDefaultPage(cfg, cat, page) == page = NoneVal \/ page \notin Elems(PagesOf(cfg, cat))

\* main.py:165-186: the head of the sidebar and the default selection
SidebarDefaults ==
    /\ pc = "sidebar"
    /\ sidebar' = TRUE
    /\ LET cat == DefaultCategory(page_config, selected_category)
           wrote == \/ selected_category = NoneVal
                    \/ /\ cat \in Keys(page_config)
                       /\ NeedsDefaultPage(page_config, cat, selected_page)
                       /\ Len(PagesOf(page_config, cat)) > 0
       IN  nav_access' = nav_access \cup {"read"} \cup (IF wrote THEN {"write"} ELSE {})
    /\ LET cat == DefaultCategory(page_config, selected_category)
       IN  IF cat \notin Keys(page_config)
           THEN /\ exception' = "KeyError"
                /\ pc' = "crashed"
                /\ selected_category' = cat
                /\ UNCHANGED selected_page
           ELSE IF ~NeedsDefaultPage(page_config, cat, selected_page)
           THEN /\ pc' = "menu"
                /\ selected_category' = cat
                /\ UNCHANGED <<selected_page, exception>>
           ELSE IF Len(PagesOf(page_config, cat)) = 0
           THEN /\ exception' = "IndexError"
                /\ pc' = "crashed"
                /\ selected_category' = cat
                /\ UNCHANGED selected_page
           ELSE /\ pc' = "menu"
                /\ selected_category' = cat
                /\ selected_page' = PagesOf(page_config, cat)[1]
                /\ UNCHANGED exception
    /\ loop_i' = 1
    /\ UNCHANGED <<authentication_status, theme, username, password, menu,
                   theme_widget, secrets, page_config, submitted, errors,
                   page_loaded, data_fetched, nav_at_logout>>
    /\ UNCHANGED event
    /\ UNCHANGED <<session_keys, static>>
    /\ UNCHANGED page_vars

\* main.py:196-202
DefaultIndex(category, pages) ==
    IF selected_category = category /\ selected_page \in Elems(pages)
    THEN IndexOf(pages, selected_page)
    ELSE 0

\* main.py:204-213: the component returns the value its frontend sent last,
\* and options[default_index] until it has sent one
option_menu(category, pages, default_index) ==
    IF menu[category] = Unset THEN pages[default_index + 1] ELSE menu[category]

\* main.py:216
SelectionChanged(selected, category) ==
    selected # selected_page \/ selected_category # category

\* main.py:188-213: the categories whose option_menu a run has rendered when
\* it is at the i-th category
MenusRendered(i) ==
    {page_config[k].cat : k \in {j \in 1..i : Len(page_config[j].pages) > 0}}

\* main.py:188-219: one iteration of the loop over the categories.  A run that
\* st.rerun() ends counts as finished: the state of the widgets it did not
\* render (the login form, the menus of the later categories, the theme
\* selector) is dropped.
MenuLoopStep ==
    /\ pc = "menu"
    /\ loop_i <= Len(page_config)
    /\ LET category == page_config[loop_i].cat
           pages == page_config[loop_i].pages
       IN  IF Len(pages) = 0
           THEN /\ loop_i' = loop_i + 1
                /\ UNCHANGED <<selected_category, selected_page, pc, submitted,
                               errors, exception, sidebar, page_loaded,
                               data_fetched, nav_access, username, password,
                               menu, theme_widget>>
           ELSE LET selected == option_menu(category, pages, DefaultIndex(category, pages))
                IN  IF SelectionChanged(selected, category)
                    THEN /\ selected_category' = category
                         /\ selected_page' = selected
                         /\ username' = ""
                         /\ password' = ""
                         /\ menu' = [c \in DOMAIN menu |->
                                       IF c \in MenusRendered(loop_i) THEN menu[c]
                                       ELSE Unset]
                         /\ theme_widget' = Unset
                         /\ NewRun
                    ELSE /\ loop_i' = loop_i + 1
                         /\ UNCHANGED <<selected_category, selected_page, pc,
                                        submitted, errors, exception, sidebar,
                                        page_loaded, data_fetched, nav_access,
                                        username, password, menu, theme_widget>>
    /\ UNCHANGED <<authentication_status, theme, secrets, page_config,
                   nav_at_logout>>
    /\ UNCHANGED event
    /\ UNCHANGED <<session_keys, static>>
    /\ UNCHANGED page_vars

\* main.py:224: the selectbox returns the user's choice, the indexed option before one
ThemeSelectbox == IF theme_widget = Unset THEN theme ELSE theme_widget

\* main.py:221-227: the Logout button and the theme selector.  The st.rerun()
\* of line 227 ends a run that did not render the login form: its widget
\* state is dropped.
SidebarFooter ==
    /\ pc = "menu"
    /\ loop_i > Len(page_config)
    /\ IF ThemeSelectbox # theme
       THEN /\ theme' = ThemeSelectbox
            /\ theme_widget' = Unset
            /\ username' = ""
            /\ password' = ""
            /\ NewRun
       ELSE /\ pc' = "load"
            /\ UNCHANGED <<theme, theme_widget, loop_i, submitted, errors,
                           exception, sidebar, page_loaded, data_fetched,
                           nav_access, username, password>>
    /\ UNCHANGED <<authentication_status, selected_category, selected_page,
                   menu, secrets, page_config, nav_at_logout>>
    /\ UNCHANGED event
    /\ UNCHANGED <<session_keys, static>>
    /\ UNCHANGED page_vars

\* bool(x) of a session value: None and the empty string are false
Truthy(x) == x # NoneVal /\ x # ""

\* what an exec'd page does once past its own authentication check: it renders,
\* raises an exception (pages/*.py:24), or shows an error and calls st.stop()
\* (pages/*.py:27-29 and 62-64)
PageOutcomes == {"rendered", "raised", "unset", "failed"}

\* the messages main.py and the page show for an outcome
OutcomeMsgs(outcome) ==
    CASE outcome = "raised" -> {MsgErrorLoading}
      [] outcome = "unset" -> {MsgTursoUnset}
      [] outcome = "failed" -> {MsgDbFailed}
      [] OTHER -> {}

\* the exec'd page ends the run with st.stop(): its own authentication check
\* fails (pages/*.py:11-14), or load_data stops (pages/*.py:27-29, 62-64)
PageStops(outcome) == ~PageAuthCheck \/ outcome \in {"unset", "failed"}

\* main.py:229-238 and the exec'd page (pages/*.py:11-14, 24-29, 62-64).
\* When the run completes the login form's widget state is dropped; a run
\* ended by st.stop() or by an uncaught exception keeps it.
LoadPage(outcome) ==
    /\ pc = "load"
    /\ nav_access' = nav_access \cup {"read"}
    /\ IF Truthy(selected_category) /\ Truthy(selected_page)
       THEN IF /\ selected_category \in Keys(page_config)
               /\ selected_page \in Elems(PagesOf(page_config, selected_category))
            THEN /\ page_loaded' = <<selected_category, selected_page>>
                 /\ data_fetched' = PageAuthCheck
                 /\ errors' = IF PageAuthCheck THEN errors \cup OutcomeMsgs(outcome)
                              ELSE errors \cup {MsgMustLogin}
                 /\ pc' = "done"
                 /\ username' = IF PageStops(outcome) THEN username ELSE ""
                 /\ password' = IF PageStops(outcome) THEN password ELSE ""
                 /\ UNCHANGED exception
            ELSE /\ exception' = "KeyError"
                 /\ pc' = "crashed"
                 /\ UNCHANGED <<page_loaded, data_fetched, errors, username,
                                password>>
       ELSE /\ pc' = "done"
            /\ username' = ""
            /\ password' = ""
            /\ UNCHANGED <<page_loaded, data_fetched, errors, exception>>
    /\ UNCHANGED <<authentication_status, selected_category, selected_page, theme,
                   menu, theme_widget, secrets, page_config, loop_i, submitted,
                   sidebar, nav_at_logout>>
    /\ UNCHANGED event
    /\ UNCHANGED <<session_keys, static>>
    /\ UNCHANGED page_vars

\* a click on an entry of the option_menu of a category
MenuClick(category, page) ==
    /\ pc = "done"
    /\ sidebar
    /\ category \in Keys(page_config)
    /\ page \in Elems(PagesOf(page_config, category))
    /\ menu[category] # page
    /\ menu' = [menu EXCEPT ![category] = page]
    /\ nav_at_logout' = <<>>
    /\ NewRun
    /\ UNCHANGED <<authentication_status, selected_category, selected_page, theme,
                   username, password, theme_widget, secrets, page_config>>
    /\ event' = "menu"
    /\ UNCHANGED <<session_keys, static>>
    /\ UNCHANGED page_vars

\* mutant of Logout: the callback also clears the page selection
LogoutClearsSelection ==
    /\ pc = "done"
    /\ sidebar
    /\ authentication_status' = FALSE
    /\ nav_at_logout' = <<selected_category, selected_page>>
    /\ selected_page' = NoneVal
    /\ NewRun
    /\ UNCHANGED <<selected_category, theme, username, password,
                   menu, theme_widget, secrets, page_config>>
    /\ event' = "logout"
    /\ UNCHANGED <<session_keys, static>>
    /\ UNCHANGED page_vars

\* main.py:223: the on_click callback of the Logout button, then the rerun
Logout ==
    /\ pc = "done"
    /\ sidebar
    /\ authentication_status' = FALSE
    /\ nav_at_logout' = <<selected_category, selected_page>>
    /\ NewRun
    /\ UNCHANGED <<selected_category, selected_page, theme, username, password,
                   menu, theme_widget, secrets, page_config>>
    /\ event' = "logout"
    /\ UNCHANGED <<session_keys, static>>
    /\ UNCHANGED page_vars

\* a choice in the theme selectbox
ThemeSelect(t) ==
    /\ pc = "done"
    /\ sidebar
    /\ t # ThemeSelectbox
    /\ theme_widget' = t
    /\ NewRun
    /\ UNCHANGED <<authentication_status, selected_category, selected_page, theme,
                   username, password, menu, secrets, page_config, nav_at_logout>>
    /\ event' = "theme"
    /\ UNCHANGED <<session_keys, static>>
    /\ UNCHANGED page_vars

Next ==
    \/ InitSessionState
    \/ RenderLogin
    \/ \E user \in Usernames, pass \in Passwords : Submit(user, pass)
    \/ RunGetPageConfig
    \/ SidebarDefaults
    \/ MenuLoopStep
    \/ SidebarFooter
    \/ \E outcome \in PageOutcomes : LoadPage(outcome)
    \/ \E c \in Keys(page_config), p \in {PageName(j) : j \in 0..MaxPages} : MenuClick(c, p)
    \/ Logout
    \/ \E t \in {"light", "dark"} : ThemeSelect(t)

Spec == Init /\ [][Next]_vars

\* the steps of a script run: Streamlit runs the script to its end, to
\* st.stop(), to st.rerun() or to an uncaught exception without waiting for
\* the user
RunStep ==
    \/ InitSessionState
    \/ RenderLogin
    \/ RunGetPageConfig
    \/ SidebarDefaults
    \/ MenuLoopStep
    \/ SidebarFooter
    \/ \E outcome \in PageOutcomes : LoadPage(outcome)

\* the session under a script runner that never abandons a run
LiveSpec == Spec /\ WF_vars(RunStep)

(***************************************************************************)
(* Auth Gate: properties of the session                                    *)
(***************************************************************************)

\* both keys of the credential record are in the store
Configured == {"USERNAME", "PASSWORD_HASH"} \subseteq DOMAIN secrets

\* the submitted pair is the stored username, exactly, and a password whose
\* hash under the stored salt is the stored hash
CredentialsMatch(user, pass) ==
    /\ Configured
    /\ user = secrets["USERNAME"].str
    /\ secrets["PASSWORD_HASH"] = HashPassword(pass, secrets["PASSWORD_HASH"].salt)

\* C2 (as claimed): while authentication_status is false no page is loaded,
\* no data is fetched, no sidebar navigation is rendered, and the run has
\* neither read nor written selected_category / selected_page.
C2_UnauthenticatedSeesNothing ==
    ~authentication_status =>
        /\ ~sidebar
        /\ page_loaded = <<>>
        /\ ~data_fetched
        /\ nav_access = {}
        /\ pc \in {"start", "gate", "login"}

\* C2 (amended): while authentication_status is false no page is loaded, no
\* data is fetched, no sidebar navigation is rendered, and the run has not
\* read selected_category / selected_page and has written them only to give
\* the keys of a new session their initial value None.
C2_UnauthenticatedOnlyInitialises ==
    ~authentication_status =>
        /\ ~sidebar
        /\ page_loaded = <<>>
        /\ ~data_fetched
        /\ nav_access \subseteq {"init"}
        /\ "init" \in nav_access =>
               (selected_category = NoneVal /\ selected_page = NoneVal)
        /\ pc \in {"start", "gate", "login"}

\* C2 witness: a session that was logged in, selected a page and logged out
\* is back at the login form.
C2_Witness ==
    /\ ~authentication_status
    /\ pc = "login"
    /\ event = "logout"
    /\ selected_page # NoneVal

\* C3: the session starts LoggedOut; a login submit logs in exactly when the
\* submitted username is the stored one and the password verifies; any other
\* submit leaves it LoggedOut with an error shown; nothing but a submit sets
\* authentication_status.
C3_LoginIffCredentialsMatch ==
    /\ authentication_status = FALSE
    /\ [][ /\ pc = "login" =>
               /\ authentication_status' <=> CredentialsMatch(username', password')
               /\ ~CredentialsMatch(username', password') =>
                      (MsgIncorrect \in errors' \/ exception' # NoneVal)
           /\ (authentication_status' /\ ~authentication_status) =>
                  (pc = "login" /\ event' = "submit") ]_vars

\* C3 witness: a submit of the stored username has logged the session in.
C3_Witness ==
    /\ authentication_status
    /\ event = "submit"
    /\ username = StoredUsername
    /\ pc = "start"

\* C7 (as claimed): with a key of the credential record missing, a submit
\* reports NotConfigured, does not tell the user the credentials were
\* incorrect, and leaves the session LoggedOut.
C7_NotConfiguredIsDistinct ==
    (submitted /\ ~Configured) =>
        /\ MsgNotConfigured \in errors
        /\ MsgIncorrect \notin errors
        /\ ~authentication_status

\* C8 (as claimed): with a malformed stored hash, a submit of the correct
\* username does not raise, leaves the session LoggedOut and shows the
\* invalid-credentials error.
C8_MalformedHashIsFailure ==
    ( /\ submitted
      /\ Configured
      /\ secrets["PASSWORD_HASH"] = MalformedHash
      /\ username = secrets["USERNAME"].str ) =>
        /\ exception = NoneVal
        /\ ~authentication_status
        /\ MsgIncorrect \in errors

\* C9: a click on Logout sets authentication_status to false and leaves
\* selected_category, selected_page and theme as they were; after the next
\* successful login the completed render shows the category and page that
\* were selected at the logout.
C9_LogoutKeepsSelection ==
    /\ [][ (pc = "done" /\ event' = "logout") =>
               /\ ~authentication_status'
               /\ UNCHANGED <<selected_category, selected_page, theme>> ]_vars
    /\ [](  (authentication_status /\ pc = "done" /\ nav_at_logout # <<>>) =>
               <<selected_category, selected_page>> = nav_at_logout )

\* C9 witness: logged in again after a logout, the render is complete and the
\* page selected before the logout, not the default one, is loaded.
C9_Witness ==
    /\ authentication_status
    /\ pc = "done"
    /\ event = "submit"
    /\ nav_at_logout # <<>>
    /\ selected_page = PageName(2)
    /\ page_loaded = nav_at_logout

(***************************************************************************)
(* The sales page: pages/1_Profile_Penjualan_By_Tipe_Motor.py              *)
(***************************************************************************)

Date(y, m, d) == [y |-> y, m |-> m, d |-> d]

RawRow(date, memo, series, segment, tipeunit, salesforce) ==
    [fixdate |-> date, memo |-> memo, SERIES |-> series, SEGMENT |-> segment,
     TIPEUNIT |-> tipeunit, NAMASALESFORCE |-> salesforce]

\* the rows the table is filled from; NoneVal is SQL NULL, and 2024-02-30 is a
\* fixdate that does not parse
RowUniverse ==
    { RawRow(Date(2024, 3, 2), "M1", "X", "AT", "T1", "S1"),
      RawRow(Date(2024, 3, 2), "M2", "Y", "CUB", "T2", "S2"),
      RawRow(Date(2024, 3, 3), NoneVal, "X", "AT", "T1", "S1"),
      RawRow(Date(2024, 3, 31), "M4", NoneVal, "AT", NoneVal, "S2"),
      RawRow(Date(2023, 3, 2), "M5", "Z", "SPORT", "T3", "S1"),
      RawRow(Date(2024, 2, 29), "M6", "Y", "CUB", "T2", "S2"),
      RawRow(Date(2024, 2, 30), "M7", "X", "AT", "T1", "S1") }

KnownYears == {r.fixdate.y : r \in RowUniverse}

\* tables of at most n rows
Tables(n) == UNION {[1..k -> RowUniverse] : k \in 0..n}

IsLeap(y) == (y % 4 = 0 /\ y % 100 # 0) \/ y % 400 = 0

\* calendar.monthrange(year, month)[1]
DaysInMonth(y, m) ==
    IF m = 2 THEN (IF IsLeap(y) THEN 29 ELSE 28)
    ELSE IF m \in {4, 6, 9, 11} THEN 30 ELSE 31

\* pd.to_datetime(errors="coerce") gives a date, not NaT
Parses(date) ==
    /\ date.m \in 1..12
    /\ date.d \in 1..DaysInMonth(date.y, date.m)

\* strftime('%m'), and f"{m:02d}" of page:75
Pad2(m) == Digit[(m \div 10) + 1] \o Digit[(m % 10) + 1]

\* strftime('%Y')
Str4(y) == Pad2(y \div 100) \o Pad2(y % 100)

\* int(selected_year)
YearInt(str) == CHOOSE y \in KnownYears : Str4(y) = str

\* int(selected_month)
MonthInt(str) == CHOOSE m \in 1..12 : Pad2(m) = str

\* page:52-59: the row with its year, month and day columns
WithDateColumns(r) ==
    [fixdate |-> r.fixdate, memo |-> r.memo, SERIES |-> r.SERIES,
     SEGMENT |-> r.SEGMENT, TIPEUNIT |-> r.TIPEUNIT,
     NAMASALESFORCE |-> r.NAMASALESFORCE,
     year |-> Str4(r.fixdate.y), month |-> Pad2(r.fixdate.m), day |-> r.fixdate.d]

\* mutant of DropNaT: the dropna left out
DropNothing(rows) == rows

\* page:53-54: to_datetime(errors="coerce") and dropna(subset=["fixdate"])
DropNaT(rows) == SelectSeq(rows, LAMBDA r : Parses(r.fixdate))

\* page:52-61: the cleaning part of load_data
load_data(rows) == [k \in DOMAIN DropNaT(rows) |-> WithDateColumns(DropNaT(rows)[k])]

\* Series.unique(): the distinct values in the order first seen, None among them
Unique(s) ==
    LET firsts == SelectSeq([k \in DOMAIN s |-> k],
                            LAMBDA k : \A j \in 1..(k - 1) : s[j] # s[k])
    IN  [i \in DOMAIN firsts |-> s[firsts[i]]]

\* sorted(df["year"].unique()), page:74
SortedSet(S) ==
    LET RECURSIVE Sort(_)
        Sort(T) == IF T = {} THEN <<>>
                   ELSE LET x == CHOOSE a \in T : \A b \in T : YearInt(a) <= YearInt(b)
                        IN  <<x>> \o Sort(T \ {x})
    IN  Sort(S)

Years(d) == SortedSet({d[k].year : k \in DOMAIN d})

\* page:75
Months == [m \in 1..12 |-> Pad2(m)]

\* mutant of FilterDf: the year comparison left out
FilterDfAnyYear(d, year, month, s, e) ==
    SelectSeq(d, LAMBDA r : r.month = month /\ r.day >= s /\ r.day <= e)

\* page:102-107
FilterDf(d, year, month, s, e) ==
    SelectSeq(d, LAMBDA r : r.year = year /\ r.month = month /\ r.day >= s /\ r.day <= e)

\* range(start_day, end_day + 1) as a list
DayRange(s, e) == [i \in 1..(e - s + 1) |-> s + i - 1]

\* page:115: groupby("day")["NO.MEMO"].count(): for every day that has rows,
\* the number of its rows whose NO.MEMO is not null
GroupByDayCount(fdf) ==
    [d \in {fdf[k].day : k \in DOMAIN fdf} |->
        Cardinality({k \in DOMAIN fdf : fdf[k].day = d /\ fdf[k].memo # NoneVal})]

\* mutant of MergeLeftFillZero: an inner merge, which keeps only the days that have rows
MergeInner(days, counts) ==
    LET kept == SelectSeq(days, LAMBDA d : d \in DOMAIN counts)
    IN  [i \in DOMAIN kept |-> [day |-> kept[i], count |-> counts[kept[i]]]]

\* page:117-120: all_days_in_range.merge(daily_counts, how="left").fillna(0)
MergeLeftFillZero(days, counts) ==
    [i \in DOMAIN days |->
        [day |-> days[i],
         count |-> IF days[i] \in DOMAIN counts THEN counts[days[i]] ELSE 0]]

\* page:111-120
DailyCounts(fdf, s, e) == MergeLeftFillZero(DayRange(s, e), GroupByDayCount(fdf))

\* mutant of CategoryValues: the values of the whole table, not of the filtered rows
CategoryValuesOfTable(fdf, col) == Unique([k \in DOMAIN df |-> df[k][col]])

\* page:123: filtered_df[col].unique()
CategoryValues(fdf, col) == Unique([k \in DOMAIN fdf |-> fdf[k][col]])

\* page:124-126: MultiIndex.from_product([range(start_day, end_day + 1), values])
FromProduct(days, values) ==
    [k \in 1..(Len(days) * Len(values)) |->
        [day |-> days[((k - 1) \div Len(values)) + 1],
         cat |-> values[((k - 1) % Len(values)) + 1]]]

\* page:128-129: groupby(["day", col]).size(): rows with a null key are dropped
GroupByDayColSize(fdf, col) ==
    [key \in {<<fdf[k].day, fdf[k][col]>> : k \in {j \in DOMAIN fdf : fdf[j][col] # NoneVal}} |->
        Cardinality({k \in DOMAIN fdf : fdf[k].day = key[1] /\ fdf[k][col] = key[2]})]

\* page:132: reindex(full_index, fill_value=0)
Reindex(sizes, full) ==
    [k \in DOMAIN full |->
        [day |-> full[k].day, cat |-> full[k].cat,
         count |-> IF <<full[k].day, full[k].cat>> \in DOMAIN sizes
                   THEN sizes[<<full[k].day, full[k].cat>>] ELSE 0]]

\* page:122-134, 136-148, 150-162
DailyBreakdown(fdf, s, e, col) ==
    Reindex(GroupByDayColSize(fdf, col),
            FromProduct(DayRange(s, e), CategoryValues(fdf, col)))

\* the labels of the table in the order sorted() and pivot() put them
SortedLabels == <<"AT", "CUB", "S1", "S2", "SPORT", "T1", "T2", "T3", "X", "Y", "Z">>

\* sorted(values)
SortLabels(S) == SelectSeq(SortedLabels, LAMBDA l : l \in S)

\* page:165: groupby(['NAMASALESFORCE', 'SERIES']).size(): rows with a null key
\* are dropped
HeatmapData(fdf) ==
    [key \in {<<fdf[k].NAMASALESFORCE, fdf[k].SERIES>> :
                k \in {j \in DOMAIN fdf : fdf[j].NAMASALESFORCE # NoneVal
                                          /\ fdf[j].SERIES # NoneVal}} |->
        Cardinality({k \in DOMAIN fdf : fdf[k].NAMASALESFORCE = key[1]
                                        /\ fdf[k].SERIES = key[2]})]

\* page:166: pivot(index, columns, values).fillna(0); both axes come out sorted
Pivot(data) ==
    LET rows == SortLabels({key[1] : key \in DOMAIN data})
        cols == SortLabels({key[2] : key \in DOMAIN data})
    IN  [index |-> rows, columns |-> cols,
         cell |-> [rc \in Elems(rows) \X Elems(cols) |->
                      IF rc \in DOMAIN data THEN data[rc] ELSE 0]]

\* page:309: sorted(heatmap_pivot.index.unique())
SalesforceOptions(m) == SortLabels(Elems(m.index))

\* the values a multiselect over the options returns: distinct options, in the
\* order they were selected
Selections(opts) ==
    {q \in UNION {[1..n -> Elems(opts)] : n \in 0..Len(opts)} :
        \A i, j \in DOMAIN q : i # j => q[i] # q[j]}

\* page:317-321: heatmap_pivot.loc[selected], or a frame of the same columns
\* without rows when nothing is selected
FilterRows(m, sel) ==
    IF Len(sel) > 0
    THEN [index |-> sel, columns |-> m.columns,
          cell |-> [rc \in Elems(sel) \X Elems(m.columns) |-> m.cell[rc]]]
    ELSE [index |-> <<>>, columns |-> m.columns, cell |-> <<>>]

\* DataFrame.empty: an axis of length 0
IsEmpty(m) == Len(m.index) = 0 \/ Len(m.columns) = 0

\* DataFrame.sum(axis=0) at column c
RECURSIVE ColumnSumFrom(_, _, _)
ColumnSumFrom(m, c, i) ==
    IF i > Len(m.index) THEN 0
    ELSE m.cell[<<m.index[i], c>>] + ColumnSumFrom(m, c, i + 1)

ColumnSum(m, c) == ColumnSumFrom(m, c, 1)

\* mutant of PruneZeroColumns: every column kept
PruneNoColumns(m) == m

\* page:326: .loc[:, (m.sum(axis=0) != 0)]
PruneZeroColumns(m) ==
    LET kept == SelectSeq(m.columns, LAMBDA c : ColumnSum(m, c) # 0)
    IN  [index |-> m.index, columns |-> kept,
         cell |-> [rc \in Elems(m.index) \X Elems(kept) |-> m.cell[rc]]]

\* page:11-14: the page is run only for an authenticated session
PageTop ==
    /\ ppc = "start"
    /\ ppc' = IF PageAuthCheck THEN "load" ELSE "stopped"
    /\ errors' = IF PageAuthCheck THEN errors ELSE errors \cup {MsgMustLogin}
    /\ UNCHANGED <<raw_rows, df, selected_year, selected_month, start_day, end_day,
                   filtered_df, daily_counts, daily_series_counts,
                   daily_segment_counts, daily_tipeunit_counts, agg_error>>
    /\ UNCHANGED heat_vars
    /\ UNCHANGED session_but_errors

\* page:16-64, 71: the table is fetched and cleaned (once: the result is
\* cached).  A missing Turso secret raises KeyError outside the try; an empty
\* one, and any failure of the connection, the query or the cleaning (answered
\* = FALSE), shows an error and stops the run.
LoadData(answered, rows) ==
    /\ ppc = "load"
    /\ IF ~({"TURSO_DB_URL", "TURSO_AUTH_TOKEN"} \subseteq DOMAIN secrets)
       THEN /\ ppc' = "crashed"
            /\ agg_error' = "KeyError"
            /\ UNCHANGED <<raw_rows, df, errors>>
       ELSE IF secrets["TURSO_DB_URL"].str = "" \/ secrets["TURSO_AUTH_TOKEN"].str = ""
       THEN /\ ppc' = "stopped"
            /\ errors' = errors \cup {MsgTursoUnset}
            /\ UNCHANGED <<raw_rows, df, agg_error>>
       ELSE IF ~answered
       THEN /\ ppc' = "stopped"
            /\ errors' = errors \cup {MsgDbFailed}
            /\ UNCHANGED <<raw_rows, df, agg_error>>
       ELSE /\ raw_rows' = rows
            /\ df' = load_data(rows)
            /\ ppc' = "controls"
            /\ UNCHANGED <<agg_error, errors>>
    /\ UNCHANGED <<selected_year, selected_month, start_day, end_day,
                   filtered_df, daily_counts, daily_series_counts,
                   daily_segment_counts, daily_tipeunit_counts>>
    /\ UNCHANGED heat_vars
    /\ UNCHANGED session_but_errors

\* the days the slider is moved to in a month of n days
DayPicks(n) == {d \in 1..n : d <= MaxDayPick \/ d = 30 \/ d = n}

\* page:73-98: the Year and Month selectboxes and the day slider.  With no row
\* in the table the Year selectbox has no option and returns None, and
\* int(None) raises.
Controls(year, month, s, e) ==
    /\ ppc = "controls"
    /\ IF Len(Years(df)) = 0
       THEN /\ ppc' = "crashed"
            /\ agg_error' = "TypeError"
            /\ UNCHANGED <<selected_year, selected_month, start_day, end_day>>
       ELSE /\ year \in Elems(Years(df))
            /\ month \in Elems(Months)
            /\ s \in 1..DaysInMonth(YearInt(year), MonthInt(month))
            /\ e \in 1..DaysInMonth(YearInt(year), MonthInt(month))
            /\ s <= e
            /\ selected_year' = year
            /\ selected_month' = month
            /\ start_day' = s
            /\ end_day' = e
            /\ ppc' = "calculate"
            /\ UNCHANGED agg_error
    /\ UNCHANGED <<raw_rows, df, filtered_df, daily_counts, daily_series_counts,
                   daily_segment_counts, daily_tipeunit_counts>>
    /\ UNCHANGED heat_vars
    /\ UNCHANGED session_vars

\* page:100-162: the filter and the calculations; nothing in them raises
Calculate ==
    /\ ppc = "calculate"
    /\ LET fdf == FilterDf(df, selected_year, selected_month, start_day, end_day)
       IN  /\ filtered_df' = fdf
           /\ daily_counts' = DailyCounts(fdf, start_day, end_day)
           /\ daily_series_counts' = DailyBreakdown(fdf, start_day, end_day, "SERIES")
           /\ daily_segment_counts' = DailyBreakdown(fdf, start_day, end_day, "SEGMENT")
           /\ daily_tipeunit_counts' = DailyBreakdown(fdf, start_day, end_day, "TIPEUNIT")
           /\ heatmap_pivot' = Pivot(HeatmapData(fdf))
    /\ ppc' = "rendered"
    /\ UNCHANGED <<raw_rows, df, selected_year, selected_month, start_day, end_day,
                   agg_error, selected_salesforce, filtered_heatmap_pivot,
                   heatmap_shown>>
    /\ UNCHANGED session_vars

\* page:304-346: the salesforce multiselect, the row filter, the pruning of the
\* all-zero columns and the chart
Heatmap(sel) ==
    /\ ppc = "rendered"
    /\ sel \in Selections(SalesforceOptions(heatmap_pivot))
    /\ selected_salesforce' = sel
    /\ LET filtered == FilterRows(heatmap_pivot, sel)
           pruned == IF ~IsEmpty(filtered) THEN PruneZeroColumns(filtered) ELSE filtered
       IN  /\ filtered_heatmap_pivot' = pruned
           /\ heatmap_shown' = ~IsEmpty(pruned)
    /\ ppc' = "shown"
    /\ UNCHANGED <<raw_rows, df, selected_year, selected_month, start_day, end_day,
                   filtered_df, daily_counts, daily_series_counts,
                   daily_segment_counts, daily_tipeunit_counts, agg_error,
                   heatmap_pivot>>
    /\ UNCHANGED session_vars

\* a change of a control reruns the page script from the top: load_data is
\* served from the cache and everything else is computed anew
ChangeControls ==
    /\ ppc \in {"rendered", "shown"}
    /\ ppc' = "controls"
    /\ selected_year' = NoneVal
    /\ selected_month' = NoneVal
    /\ start_day' = 0
    /\ end_day' = 0
    /\ filtered_df' = <<>>
    /\ daily_counts' = <<>>
    /\ daily_series_counts' = <<>>
    /\ daily_segment_counts' = <<>>
    /\ daily_tipeunit_counts' = <<>>
    /\ heatmap_pivot' = EmptyMatrix
    /\ selected_salesforce' = <<>>
    /\ filtered_heatmap_pivot' = EmptyMatrix
    /\ heatmap_shown' = FALSE
    /\ UNCHANGED <<raw_rows, df, agg_error>>
    /\ UNCHANGED session_vars

\* the credential record of a configured deployment
ConfiguredStore ==
    [k \in {"USERNAME", "PASSWORD_HASH"} |->
        IF k = "USERNAME" THEN [str |-> StoredUsername]
        ELSE HashPassword(StoredPassword, "salt1")]

\* the session the page is opened in: logged in or not, with any Turso settings
AggInit ==
    /\ authentication_status \in BOOLEAN
    /\ SessionDefaults
    /\ SessionRest
    /\ secrets \in {WithTurso(ConfiguredStore, t) : t \in TursoSettings}
    /\ page_config = <<>>
    /\ static = CHOOSE dir \in StaticDirs : "bg-login.jpg" \in dir
    /\ ppc = "start"
    /\ PageUnrun

YearPicks == {Str4(y) : y \in KnownYears}

MonthPicks == {Pad2(m) : m \in 1..MaxMonth}

AggNext ==
    \/ PageTop
    \/ \E answered \in BOOLEAN, rows \in Tables(MaxRows) : LoadData(answered, rows)
    \/ \E year \in YearPicks, month \in MonthPicks :
          \E s, e \in DayPicks(DaysInMonth(YearInt(year), MonthInt(month))) :
             Controls(year, month, s, e)
    \/ Calculate
    \/ \E sel \in Selections(SortLabels({r.NAMASALESFORCE : r \in RowUniverse})) : Heatmap(sel)
    \/ ChangeControls

AggSpec == AggInit /\ [][AggNext]_vars

(***************************************************************************)
(* Sales Aggregator: properties of the page                                *)
(***************************************************************************)

\* the sum of the count column over the entries of a frame for day d
RECURSIVE SumCountFrom(_, _, _)
SumCountFrom(frame, d, k) ==
    IF k > Len(frame) THEN 0
    ELSE (IF frame[k].day = d THEN frame[k].count ELSE 0) + SumCountFrom(frame, d, k + 1)

SumAt(frame, d) == SumCountFrom(frame, d, 1)

\* the sale events of the selected year and month in the selected day range:
\* the rows of the table whose date parses, by their position in raw_rows
InWindow ==
    {k \in DOMAIN raw_rows :
        /\ Parses(raw_rows[k].fixdate)
        /\ Str4(raw_rows[k].fixdate.y) = selected_year
        /\ Pad2(raw_rows[k].fixdate.m) = selected_month
        /\ raw_rows[k].fixdate.d \in start_day..end_day}

EventsOn(d) == {k \in InWindow : raw_rows[k].fixdate.d = d}

Observed(col) == {raw_rows[k][col] : k \in InWindow}

Breakdowns ==
    { [col |-> "SERIES", frame |-> daily_series_counts],
      [col |-> "SEGMENT", frame |-> daily_segment_counts],
      [col |-> "TIPEUNIT", frame |-> daily_tipeunit_counts] }

\* C1 (as claimed): for every dimension and every day of the range, the counts
\* of the daily breakdown summed over the category values equal the daily total,
\* also when an event has no transaction id or no category value.
C1_CrossConsistency ==
    ppc = "rendered" =>
        \A b \in Breakdowns : \A d \in start_day..end_day :
            SumAt(b.frame, d) = SumAt(daily_counts, d)

\* C4: daily_totals has end_day - start_day + 1 entries, the i-th for day
\* start_day + i - 1 (ascending, no duplicate, no gap), and a day without
\* events carries 0.
C4_DenseDailyTotals ==
    ppc = "rendered" =>
        /\ start_day <= end_day
        /\ Len(daily_counts) = end_day - start_day + 1
        /\ \A i \in DOMAIN daily_counts :
              /\ daily_counts[i].day = start_day + i - 1
              /\ EventsOn(daily_counts[i].day) = {} => daily_counts[i].count = 0

\* C4 witness: no event in the window and the range [1, 30]: 30 entries, all 0.
C4_Witness ==
    /\ ppc = "rendered"
    /\ InWindow = {}
    /\ start_day = 1
    /\ end_day = 30
    /\ Len(daily_counts) = 30
    /\ \A i \in DOMAIN daily_counts : daily_counts[i].count = 0

\* C5: the (day, category) keys of each daily breakdown are the cross product
\* of the days of the range with the category values observed in the window,
\* each once; a cell no event matches holds 0.
C5_BreakdownKeys ==
    ppc = "rendered" =>
        \A b \in Breakdowns :
            LET keys == {<<b.frame[k].day, b.frame[k].cat>> : k \in DOMAIN b.frame}
            IN  /\ keys = (start_day..end_day) \X Observed(b.col)
                /\ Cardinality(keys) = Len(b.frame)
                /\ \A k \in DOMAIN b.frame :
                      (\A j \in EventsOn(b.frame[k].day) : raw_rows[j][b.col] # b.frame[k].cat)
                         => b.frame[k].count = 0

\* C5 witness: the SERIES breakdown has a zero cell and a non-zero cell, and the
\* table holds a series that is not in the window.
C5_Witness ==
    /\ ppc = "rendered"
    /\ \E k \in DOMAIN daily_series_counts : daily_series_counts[k].count = 0
    /\ \E k \in DOMAIN daily_series_counts : daily_series_counts[k].count > 0
    /\ \E k \in DOMAIN df : df[k].SERIES \notin Observed("SERIES")

\* C6: the daily total of day d is the number of sale events, counted by
\* their transaction id (the rows whose NO.MEMO is present), whose year string
\* and zero-padded month string equal the selected ones and whose day of month
\* is d.
C6_TotalsCountTransactions ==
    ppc = "rendered" =>
        \A d \in start_day..end_day :
            SumAt(daily_counts, d) =
                Cardinality({k \in EventsOn(d) : raw_rows[k].memo # NoneVal})

\* C6 witness: a day with a counted event, while the table holds an event of
\* the same month and day of another year.
C6_Witness ==
    /\ ppc = "rendered"
    /\ \E d \in start_day..end_day :
          /\ SumAt(daily_counts, d) > 0
          /\ \E k \in DOMAIN raw_rows :
                /\ raw_rows[k].fixdate.d = d
                /\ Pad2(raw_rows[k].fixdate.m) = selected_month
                /\ Str4(raw_rows[k].fixdate.y) # selected_year

\* the daily total of day d is the number of all those events, with or without
\* a transaction id; a row without NO.MEMO refutes it (see C1)
TotalsCountAllEvents ==
    ppc = "rendered" =>
        \A d \in start_day..end_day :
            SumAt(daily_counts, d) = Cardinality(EventsOn(d))

\* the bounds are not 1 <= start_day <= end_day <= days_in_month
InvalidBounds ==
    LET n == DaysInMonth(YearInt(selected_year), MonthInt(selected_month))
    IN  start_day > end_day \/ start_day \notin 1..n \/ end_day \notin 1..n

\* page:94-98: the day range the calculation works on is a pair the slider
\* offers, 1 <= start_day <= end_day <= days_in_month
SliderBoundsValid ==
    ppc \in {"calculate", "rendered", "shown"} => ~InvalidBounds

\* the positions of the rows of the table whose fixdate is a calendar date
ParsedRows == {k \in DOMAIN raw_rows : Parses(raw_rows[k].fixdate)}

\* the position in the cleaned frame of the row at position k of the table
RankOf(k) == Cardinality({j \in ParsedRows : j <= k})

\* the columns a cleaned row had in the table
RawColumns(r) ==
    [fixdate |-> r.fixdate, memo |-> r.memo, SERIES |-> r.SERIES,
     SEGMENT |-> r.SEGMENT, TIPEUNIT |-> r.TIPEUNIT,
     NAMASALESFORCE |-> r.NAMASALESFORCE]

\* C11: the cleaning step of load_data drops exactly the rows whose date does
\* not parse and keeps every other row, in order and unchanged; it raises
\* nothing; applied to its own output it drops no row.
C11_NormalizeDropsUnparsed ==
    ppc = "controls" =>
        /\ agg_error = NoneVal
        /\ Len(df) = Cardinality(ParsedRows)
        /\ \A k \in ParsedRows : RawColumns(df[RankOf(k)]) = raw_rows[k]
        /\ Len(load_data(df)) = Len(df)
        /\ load_data(df) = df

\* C11 witness: a table of a row that parses and a row that does not has been
\* cleaned to one row.
C11_Witness ==
    /\ ppc = "controls"
    /\ Len(raw_rows) = 2
    /\ Len(df) = 1
    /\ ~Parses(raw_rows[1].fixdate)


\* the sale events of the window of salesforce r and series c
CrossCount(r, c) ==
    Cardinality({k \in InWindow : raw_rows[k].NAMASALESFORCE = r /\ raw_rows[k].SERIES = c})

\* the total of column c over the selected salesforce rows
SelectedTotal(c) ==
    Cardinality({k \in InWindow : raw_rows[k].SERIES = c
                                  /\ raw_rows[k].NAMASALESFORCE \in Elems(selected_salesforce)})

\* seq keeps the order of the elements it shares with of
KeepsOrder(seq, of) ==
    \A i, j \in DOMAIN seq :
        i < j => \E a, b \in DOMAIN of : a < b /\ of[a] = seq[i] /\ of[b] = seq[j]

\* C12: once the heatmap is displayed for a selection of salesforce rows, the
\* displayed matrix holds the selected rows in the selected order, its columns
\* are exactly the columns of the unfiltered matrix whose total over the
\* selected rows is not zero, in their order and with their values, and the
\* unfiltered matrix still holds every salesforce and series of the window
\* with its count; the heatmap step does not change the unfiltered matrix.
C12_PruneZeroColumns ==
    /\ [](ppc = "shown" =>
            /\ heatmap_shown <=> selected_salesforce # <<>>
            /\ Elems(heatmap_pivot.index) =
                 {raw_rows[k].NAMASALESFORCE :
                    k \in {j \in InWindow : raw_rows[j].NAMASALESFORCE # NoneVal
                                            /\ raw_rows[j].SERIES # NoneVal}}
            /\ Elems(heatmap_pivot.columns) =
                 {raw_rows[k].SERIES :
                    k \in {j \in InWindow : raw_rows[j].NAMASALESFORCE # NoneVal
                                            /\ raw_rows[j].SERIES # NoneVal}}
            /\ \A r \in Elems(heatmap_pivot.index), c \in Elems(heatmap_pivot.columns) :
                 heatmap_pivot.cell[<<r, c>>] = CrossCount(r, c)
            /\ heatmap_shown =>
                 /\ filtered_heatmap_pivot.index = selected_salesforce
                 /\ Elems(filtered_heatmap_pivot.columns) =
                      {c \in Elems(heatmap_pivot.columns) : SelectedTotal(c) # 0}
                 /\ Len(filtered_heatmap_pivot.columns) =
                      Cardinality(Elems(filtered_heatmap_pivot.columns))
                 /\ KeepsOrder(filtered_heatmap_pivot.columns, heatmap_pivot.columns)
                 /\ DOMAIN filtered_heatmap_pivot.cell =
                      Elems(selected_salesforce) \X Elems(filtered_heatmap_pivot.columns)
                 /\ \A rc \in DOMAIN filtered_heatmap_pivot.cell :
                      filtered_heatmap_pivot.cell[rc] = heatmap_pivot.cell[rc])
    /\ [][ppc' = "shown" => heatmap_pivot' = heatmap_pivot]_vars

\* C12 witness: the heatmap is displayed for one of two salesforce rows, in a
\* window of two series: the series the selected salesforce did not sell is
\* pruned, the other is kept.
C12_Witness ==
    /\ ppc = "shown"
    /\ heatmap_shown
    /\ Len(heatmap_pivot.index) = 2
    /\ Len(selected_salesforce) = 1
    /\ Len(heatmap_pivot.columns) = 2
    /\ Len(filtered_heatmap_pivot.columns) = 1


\* at least one category, and every category holds a page
AllCategoriesNonEmpty ==
    /\ Len(page_config) > 0
    /\ \A i \in DOMAIN page_config : Len(page_config[i].pages) > 0

\* C13: every run of the script of an authenticated session over a page
\* configuration without empty categories leads, after finitely many reruns,
\* to a completed render with the selected page, when its name is not empty,
\* loaded.
C13_RerunLoopTerminates ==
    (authentication_status /\ pc = "start" /\ AllCategoriesNonEmpty)
        ~> (pc = "done" /\ (Truthy(selected_page) =>
                               page_loaded = <<selected_category, selected_page>>))


\* the selection names a page of the page configuration
SelectionValid ==
    /\ selected_category \in Keys(page_config)
    /\ selected_page \in Elems(PagesOf(page_config, selected_category))

\* C14: an authenticated render that reaches the page-loading step has a valid
\* selection, and neither the default selection nor the page lookup fails on
\* a missing category or an empty page list.
C14_SelectionAlwaysValid ==
    /\ (authentication_status /\ pc = "load") => SelectionValid
    /\ exception \notin {"KeyError", "IndexError"}

====
